---- MODULE Spec2Model ----
(***************************************************************************)
(* tmcp.py: recursive, non-destructive copy of files and directories into  *)
(* a destination directory.  The filesystem is a function from paths       *)
(* (sequences of names) to entries; tmcp() and the recursion of _copy()    *)
(* are a call stack of frames stepping from one filesystem operation to    *)
(* the next.                                                               *)
(***************************************************************************)
EXTENDS Integers, Sequences, FiniteSets, TLC

VARIABLES
  fs,      \* the filesystem: path -> [type, bytes, mtime, mode]
  fs0,     \* the filesystem as it was before the first run (never changes)
  args,    \* [src: sequence of paths, dst: path] as given to tmcp()
  run,     \* 1: first call of tmcp(), 2: second call with the same arguments
  pc,      \* position of tmcp(): "start", "loop", "copy", "done", "fatal", "interrupted"
  i,       \* index of the next element of src in the loop of tmcp()
  stack,   \* active calls of _copy(), outermost first
  diag,    \* the lines printed by this run
  clock,   \* the current time, used for mtimes set by the operating system
  made,    \* directories made by os.mkdir in this run -> the source they copy
  first,   \* how the first run ended ("none" while it runs)
  err      \* the exception that ended the run ("none" if none)

vars == <<fs, fs0, args, run, pc, i, stack, diag, clock, made, first, err>>

\* Bounds of the model.
MaxSrcs == 2      \* longest list of sources
MaxDepth == 5     \* deepest recursion of _copy() before RecursionError

----------------------------------------------------------------------------
\* Paths (os.path)

NoPath == <<"<None>">>

NonEmptyName(n) == n # ""

\* os.path.realpath on a path without symlinks: drops empty components
\* (trailing or doubled slashes).
RealPath(p) == SelectSeq(p, NonEmptyName)

Parent(p) == SubSeq(p, 1, Len(p) - 1)

Basename(p) == IF Len(p) = 0 THEN "" ELSE p[Len(p)]

Join(d, n) == Append(d, n)

IsPrefix(p, q) == Len(p) <= Len(q) /\ SubSeq(q, 1, Len(p)) = p

\* q (below s) moved below t
Rebase(q, s, t) == t \o SubSeq(q, Len(s) + 1, Len(q))

----------------------------------------------------------------------------
\* The filesystem

FileEntry(b, t, m) == [type |-> "file", bytes |-> b, mtime |-> t, mode |-> m]
DirEntry(t, m) == [type |-> "dir", bytes |-> <<>>, mtime |-> t, mode |-> m]

Exists(f, p) == p \in DOMAIN f
IsFile(f, p) == p \in DOMAIN f /\ f[p].type = "file"
IsDir(f, p) == p \in DOMAIN f /\ f[p].type = "dir"

\* os.listdir: the names of the entries directly in p
ListDir(f, p) == {q[Len(q)] : q \in {r \in DOMAIN f : Len(r) = Len(p) + 1 /\ Parent(r) = p}}

\* a new entry in a directory updates the directory's modification time
AddEntry(f, p, e, t) == (p :> e) @@ [f EXCEPT ![Parent(p)].mtime = t]

\* os.mkdir of a path that does not exist
Mkdir(f, p, t) == AddEntry(f, p, DirEntry(t, "default"), t)

\* os.makedirs: creates the missing ancestors, then the directory
RECURSIVE MakeDirs(_, _, _)
MakeDirs(f, p, t) ==
  IF Exists(f, p) THEN f ELSE Mkdir(MakeDirs(f, Parent(p), t), p, t)

\* no existing ancestor of p (or p itself) is a plain file
CanMakeDirs(f, p) == \A k \in 0..Len(p) : ~IsFile(f, SubSeq(p, 1, k))

\* open(p, 'wb'): creates an empty file or truncates the existing one
OpenWrite(f, p, t) ==
  IF Exists(f, p)
  THEN [f EXCEPT ![p].bytes = <<>>, ![p].mtime = t]
  ELSE AddEntry(f, p, FileEntry(<<>>, t, "default"), t)

\* one more block of s written to p
WriteBlock(f, s, p, t) ==
  [f EXCEPT ![p].bytes = Append(@, f[s].bytes[Len(@) + 1]), ![p].mtime = t]

\* copystat that forgets the timestamps
CopyStatModeOnly(f, s, p) == [f EXCEPT ![p].mode = f[s].mode]

\* shutil.copystat: the timestamps and the permissions of s applied to p
CopyStat(f, s, p) == [f EXCEPT ![p].mtime = f[s].mtime, ![p].mode = f[s].mode]

\* shutil.copy2 copies into a directory under the source's basename
Copy2Target(f, s, p) == IF IsDir(f, p) THEN Join(p, Basename(s)) ELSE p

----------------------------------------------------------------------------
\* getOriginal without the check of existence
GetOriginalUnchecked(f, src) == src

\* getOriginal: a pass-through that only checks that the path exists
GetOriginal(f, src) == IF ~Exists(f, src) THEN NoPath ELSE src

Frame(src, dst) ==
  [src |-> src, dst |-> dst, copy_name |-> Join(dst, Basename(src)),
   real_src |-> NoPath, target |-> NoPath,
   pc |-> "enter", contents |-> {}, did_make_new_dir |-> FALSE]

Top == stack[Len(stack)]
Pop == SubSeq(stack, 1, Len(stack) - 1)
SetTop(fr) == [stack EXCEPT ![Len(stack)] = fr]

Line(kind, path) == [kind |-> kind, path |-> path]

InCopy(label) == pc = "copy" /\ Len(stack) > 0 /\ Top.pc = label

Return == /\ stack' = Pop
          /\ pc' = IF Len(stack) = 1 THEN "loop" ELSE "copy"

Raise(e) == /\ stack' = <<>>
            /\ pc' = "fatal"
            /\ err' = e

----------------------------------------------------------------------------
\* The initial filesystems and arguments

SourceTree ==
  (<<>> :> DirEntry(1, "default")) @@
  (<<"S">> :> DirEntry(1, "default")) @@
  (<<"S", "a">> :> FileEntry(<<1, 2>>, 2, "ro")) @@
  (<<"S", "m">> :> DirEntry(3, "ro")) @@
  (<<"S", "m", "n">> :> DirEntry(4, "default")) @@
  (<<"S", "m", "n", "f">> :> FileEntry(<<3>>, 5, "default")) @@
  (<<"T">> :> DirEntry(1, "default")) @@
  (<<"T", "m">> :> DirEntry(6, "default")) @@
  (<<"T", "m", "g">> :> FileEntry(<<>>, 7, "ro")) @@
  (<<"T", "a">> :> DirEntry(8, "default")) @@
  (<<"T", "a", "a">> :> FileEntry(<<5>>, 9, "default"))

DstAbsent == <<>>
DstEmpty == (<<"d">> :> DirEntry(1, "default"))
DstIsFile == (<<"d">> :> FileEntry(<<9>>, 1, "default"))
DstHasFileA == DstEmpty @@ (<<"d", "a">> :> FileEntry(<<9>>, 1, "default"))
DstHasDirA == DstEmpty @@ (<<"d", "a">> :> DirEntry(1, "default"))
DstHasDirAFileA == DstHasDirA @@ (<<"d", "a", "a">> :> FileEntry(<<9>>, 1, "default"))
DstHasDirADirA == DstHasDirA @@ (<<"d", "a", "a">> :> DirEntry(1, "default"))
DstHasFileM == DstEmpty @@ (<<"d", "m">> :> FileEntry(<<9>>, 1, "default"))
DstHasDirs == DstEmpty @@ (<<"d", "m">> :> DirEntry(1, "default"))
                       @@ (<<"d", "m", "n">> :> DirEntry(1, "default"))
DstHasAll == DstHasDirs @@ (<<"d", "m", "n", "f">> :> FileEntry(<<9>>, 1, "default"))

DstVariants == {DstAbsent, DstEmpty, DstIsFile, DstHasFileA, DstHasDirA,
                DstHasDirAFileA, DstHasDirADirA, DstHasFileM, DstHasDirs, DstHasAll}

SrcCands == {<<"S", "a">>, <<"S", "m">>, <<"T", "m">>, <<"T", "a">>, <<"S", "zz">>}

SrcLists(S, n) == UNION {[1..k -> S] : k \in 1..n}

Scenario(o, s, d) == [overlay |-> o, src |-> s, dst |-> d]

\* sources merged into a destination that may hold entries of the same names
MergeScenarios ==
  {Scenario(o, s, <<"d">>) : o \in DstVariants, s \in SrcLists(SrcCands, MaxSrcs)}

\* destinations to be created, written with a trailing slash, or lying
\* inside a source
PlacementScenarios ==
  {Scenario(o, s, d) :
     o \in {DstAbsent, DstIsFile},
     s \in {<< <<"S", "m">> >>, << <<"S", "m", "">> >>, << <<"S", "a">>, <<"S", "m">> >>},
     d \in {<<"d", "">>, <<"d", "x", "y">>, <<"S", "m", "o">>, <<"S", "m">>,
            <<"S", "m", "n">>, <<"S">>}}
  \cup {Scenario(DstHasAll, << <<"d", "m">> >>, <<"d">>)}

\* a new or empty destination and sources of distinct names
CleanScenarios ==
  {Scenario(o, s, <<"d">>) :
     o \in {DstAbsent, DstEmpty},
     s \in {t \in SrcLists({<<"S", "a">>, <<"S", "m">>, <<"S", "zz">>}, MaxSrcs) :
              \A j, k \in DOMAIN t : t[j] = t[k] => j = k}}

InitFrom(sc) ==
  /\ fs = sc.overlay @@ SourceTree
  /\ fs0 = sc.overlay @@ SourceTree
  /\ args = [src |-> sc.src, dst |-> sc.dst]
  /\ run = 1
  /\ pc = "start"
  /\ i = 1
  /\ stack = <<>>
  /\ diag = <<>>
  /\ clock = 11
  /\ made = <<>>
  /\ first = "none"
  /\ err = "none"

Init == \E sc \in MergeScenarios \cup PlacementScenarios : InitFrom(sc)

InitInt == \E sc \in CleanScenarios : InitFrom(sc)

----------------------------------------------------------------------------
\* tmcp()

Srcs == [k \in DOMAIN args.src |-> RealPath(args.src[k])]
Dst == RealPath(args.dst)

\* realpath of the arguments, the archive (always None), os.makedirs(dst)
Tmcp_Start ==
  /\ pc = "start"
  /\ IF CanMakeDirs(fs, Dst)
     THEN /\ fs' = MakeDirs(fs, Dst, clock)
          /\ pc' = "loop"
          /\ UNCHANGED <<stack, err>>
     ELSE /\ Raise("OSError")
          /\ UNCHANGED fs
  /\ UNCHANGED <<fs0, args, run, i, diag, clock, made, first>>

\* for f in src: _copy(f, dst, archive)
Tmcp_Next ==
  /\ pc = "loop"
  /\ i <= Len(Srcs)
  /\ stack' = <<Frame(Srcs[i], Dst)>>
  /\ i' = i + 1
  /\ pc' = "copy"
  /\ UNCHANGED <<fs, fs0, args, run, diag, clock, made, first, err>>

Tmcp_Return ==
  /\ pc = "loop"
  /\ i > Len(Srcs)
  /\ pc' = "done"
  /\ UNCHANGED <<fs, fs0, args, run, i, stack, diag, clock, made, first, err>>

----------------------------------------------------------------------------
\* _copy()

\* real_src is None (message, return), or is neither a file nor a directory
Copy_NoSource ==
  /\ InCopy("enter")
  /\ LET real_src == GetOriginal(fs, Top.src) IN
       /\ ~IsFile(fs, real_src)
       /\ ~IsDir(fs, real_src)
       /\ diag' = IF real_src = NoPath
                  THEN Append(diag, Line("Source path does not exist", Top.src))
                  ELSE diag
  /\ Return
  /\ UNCHANGED <<fs, fs0, args, run, i, clock, made, first, err>>

\* a file whose copy_name is a file: message, nothing copied
Copy_FileExists ==
  /\ InCopy("enter")
  /\ LET real_src == GetOriginal(fs, Top.src) IN
       /\ IsFile(fs, real_src)
       /\ IsFile(fs, Top.copy_name)
  /\ diag' = Append(diag, Line("Destination file already exists", Top.copy_name))
  /\ Return
  /\ UNCHANGED <<fs, fs0, args, run, i, clock, made, first, err>>

\* a file whose copy_name is not a file: shutil.copy2 is called next
Copy_FileNew ==
  /\ InCopy("enter")
  /\ LET real_src == GetOriginal(fs, Top.src) IN
       /\ IsFile(fs, real_src)
       /\ ~IsFile(fs, Top.copy_name)
       /\ stack' = SetTop([Top EXCEPT !.real_src = real_src, !.pc = "copy2"])
  /\ UNCHANGED <<fs, fs0, args, run, pc, i, diag, clock, made, first, err>>

\* shutil.copy2 opens its target for writing
Copy2_Open ==
  /\ InCopy("copy2")
  /\ LET target == Copy2Target(fs, Top.real_src, Top.copy_name) IN
       IF target = Top.real_src
       THEN Raise("SameFileError") /\ UNCHANGED fs
       ELSE IF IsDir(fs, target)
       THEN Raise("IsADirectoryError") /\ UNCHANGED fs
       ELSE /\ fs' = OpenWrite(fs, target, clock)
            /\ stack' = SetTop([Top EXCEPT !.target = target, !.pc = "write"])
            /\ UNCHANGED <<pc, err>>
  /\ UNCHANGED <<fs0, args, run, i, diag, clock, made, first>>

\* shutil.copy2 writes the next block
Copy2_Write ==
  /\ InCopy("write")
  /\ Len(fs[Top.target].bytes) < Len(fs[Top.real_src].bytes)
  /\ fs' = WriteBlock(fs, Top.real_src, Top.target, clock)
  /\ UNCHANGED <<fs0, args, run, pc, i, stack, diag, clock, made, first, err>>

\* shutil.copy2 has written everything: copystat, return
Copy2_Stat ==
  /\ InCopy("write")
  /\ Len(fs[Top.target].bytes) >= Len(fs[Top.real_src].bytes)
  /\ fs' = CopyStat(fs, Top.real_src, Top.target)
  /\ Return
  /\ UNCHANGED <<fs0, args, run, i, diag, clock, made, first, err>>

\* a directory whose copy_name is a directory: message, list the source
Copy_DirExists ==
  /\ InCopy("enter")
  /\ LET real_src == GetOriginal(fs, Top.src) IN
       /\ IsDir(fs, real_src)
       /\ IsDir(fs, Top.copy_name)
       /\ stack' = SetTop([Top EXCEPT !.real_src = real_src, !.pc = "children",
                                      !.contents = ListDir(fs, real_src)])
  /\ diag' = Append(diag, Line("Destination dir already exists", Top.copy_name))
  /\ UNCHANGED <<fs, fs0, args, run, pc, i, clock, made, first, err>>

\* a directory whose copy_name is not a directory: os.mkdir is called next
Copy_DirNew ==
  /\ InCopy("enter")
  /\ LET real_src == GetOriginal(fs, Top.src) IN
       /\ IsDir(fs, real_src)
       /\ ~IsDir(fs, Top.copy_name)
       /\ stack' = SetTop([Top EXCEPT !.real_src = real_src, !.pc = "mkdir"])
  /\ UNCHANGED <<fs, fs0, args, run, pc, i, diag, clock, made, first, err>>

\* os.mkdir(copy_name), then the listing of the source
Copy_Mkdir ==
  /\ InCopy("mkdir")
  /\ IF Exists(fs, Top.copy_name)
     THEN /\ Raise("FileExistsError")
          /\ UNCHANGED <<fs, made>>
     ELSE LET made_fs == Mkdir(fs, Top.copy_name, clock) IN
          /\ fs' = made_fs
          /\ made' = (Top.copy_name :> Top.real_src) @@ made
          /\ stack' = SetTop([Top EXCEPT !.did_make_new_dir = TRUE, !.pc = "children",
                                         !.contents = ListDir(made_fs, Top.real_src)])
          /\ UNCHANGED <<pc, err>>
  /\ UNCHANGED <<fs0, args, run, i, diag, clock, first>>

\* for child in contents: _copy(join(real_src, child), copy_name, archive)
Copy_Child ==
  /\ InCopy("children")
  /\ \E child \in Top.contents :
       IF Len(stack) >= MaxDepth
       THEN Raise("RecursionError")
       ELSE /\ stack' = Append(SetTop([Top EXCEPT !.contents = @ \ {child}]),
                               Frame(Join(Top.real_src, child), Top.copy_name))
            /\ UNCHANGED <<pc, err>>
  /\ UNCHANGED <<fs, fs0, args, run, i, diag, clock, made, first>>

\* all children copied: copystat if the directory is new, return
Copy_DirDone ==
  /\ InCopy("children")
  /\ Top.contents = {}
  /\ fs' = IF Top.did_make_new_dir
           THEN CopyStat(fs, Top.real_src, Top.copy_name)
           ELSE fs
  /\ Return
  /\ UNCHANGED <<fs0, args, run, i, diag, clock, made, first, err>>

----------------------------------------------------------------------------
\* The environment: tmcp() called again with the same arguments; a run
\* stopped from outside (KeyboardInterrupt, kill)

Rerun ==
  /\ run = 1
  /\ pc \in {"done", "fatal", "interrupted"}
  /\ run' = 2
  /\ first' = pc
  /\ pc' = "start"
  /\ i' = 1
  /\ diag' = <<>>
  /\ made' = <<>>
  /\ err' = "none"
  /\ clock' = clock + 1
  /\ UNCHANGED <<fs, fs0, args, stack>>

Interrupt ==
  /\ run = 1
  /\ pc \in {"start", "loop", "copy"}
  /\ pc' = "interrupted"
  /\ stack' = <<>>
  /\ err' = "KeyboardInterrupt"
  /\ UNCHANGED <<fs, fs0, args, run, i, diag, clock, made, first>>

Next ==
  \/ Tmcp_Start
  \/ Tmcp_Next
  \/ Tmcp_Return
  \/ Copy_NoSource
  \/ Copy_FileExists
  \/ Copy_FileNew
  \/ Copy2_Open
  \/ Copy2_Write
  \/ Copy2_Stat
  \/ Copy_DirExists
  \/ Copy_DirNew
  \/ Copy_Mkdir
  \/ Copy_Child
  \/ Copy_DirDone
  \/ Rerun

NextInt == Next \/ Interrupt

Spec == Init /\ [][Next]_vars

SpecInt == InitInt /\ [][NextInt]_vars

----------------------------------------------------------------------------
\* Properties

UnderDst(p) == IsPrefix(Dst, p)

ExistingSrcs == {k \in DOMAIN Srcs : Exists(fs0, Srcs[k])}

CopyName(k) == Join(Dst, Basename(Srcs[k]))

\* the tree at t is a copy of the original tree at s: same names, types and
\* bytes; files also carry the timestamps and permissions
Replica(s, t) ==
  /\ \A q \in DOMAIN fs0 : IsPrefix(s, q) =>
       LET r == Rebase(q, s, t) IN
         /\ Exists(fs, r)
         /\ fs[r].type = fs0[q].type
         /\ fs[r].bytes = fs0[q].bytes
         /\ fs0[q].type = "file" =>
              fs[r].mtime = fs0[q].mtime /\ fs[r].mode = fs0[q].mode
  /\ \A r \in DOMAIN fs : IsPrefix(t, r) => Exists(fs0, Rebase(r, t, s))

DstNewOrEmpty ==
  \/ ~Exists(fs0, Dst)
  \/ IsDir(fs0, Dst) /\ ListDir(fs0, Dst) = {}

DistinctBasenames ==
  \A j, k \in ExistingSrcs : j # k => Basename(Srcs[j]) # Basename(Srcs[k])

\* C1: every file or directory under the destination before the first run
\* is still there, with its type and (files) its bytes, in every state of
\* the run.
C1_PreExistingKept ==
  run = 1 =>
    \A p \in DOMAIN fs0 : UnderDst(p) =>
      /\ Exists(fs, p)
      /\ fs[p].type = fs0[p].type
      /\ fs[p].bytes = fs0[p].bytes

C3_SecondRunChangesNothing ==
  [][(run = 2 /\ first = "done") => fs' = fs]_vars

\* C4: after a run that copies directories, every directory that was
\* already below the destination has the modification time and permissions
\* it had before.
C4_OldDirsMetadataKept ==
  (pc = "done" /\ run = 1 /\ \A k \in ExistingSrcs : IsDir(fs0, Srcs[k])) =>
    \A p \in DOMAIN fs0 : (UnderDst(p) /\ p # Dst /\ fs0[p].type = "dir") =>
      /\ IsDir(fs, p)
      /\ fs[p].mtime = fs0[p].mtime
      /\ fs[p].mode = fs0[p].mode

\* C5: a source directory whose copy_name is a plain file does not raise:
\* the run is never ended by os.mkdir failing on the existing file.
C5_DirOntoFileDoesNotRaise ==
  ~(pc = "fatal" /\ err = "FileExistsError")

\* C6: the step that handles a source path that does not exist prints the
\* message, pops the call, and leaves the filesystem, the loop position and
\* the run's status as they were: the run goes on as if it was not listed.
C6_MissingSourceSkipped ==
  [][(pc = "copy" /\ Len(stack) = 1 /\ stack[1].pc = "enter"
        /\ ~Exists(fs, stack[1].src)) =>
       /\ fs' = fs
       /\ made' = made
       /\ i' = i
       /\ err' = err
       /\ stack' = <<>>
       /\ pc' = "loop"
       /\ diag' = Append(diag, Line("Source path does not exist", stack[1].src))]_vars

C6_Witness ==
  /\ pc = "done" /\ run = 1
  /\ \E n \in DOMAIN diag : diag[n].kind = "Source path does not exist"
  /\ \E k \in ExistingSrcs : ~Exists(fs0, CopyName(k)) /\ Exists(fs, CopyName(k))
  /\ \E j, k \in DOMAIN Srcs : j < k /\ ~Exists(fs0, Srcs[j]) /\ Exists(fs0, Srcs[k])

\* C7: when the run has completed, every directory it made has the
\* modification time of the source directory it was made from.
C7_NewDirsHaveSourceMtime ==
  (pc = "done" /\ run = 1) =>
    \A p \in DOMAIN made : fs[p].mtime = fs[made[p]].mtime

\* C8: a run interrupted anywhere and run again to completion leaves every
\* source file and directory in the destination with the source's content.
C8_ResumeCompletes ==
  (run = 2 /\ first = "interrupted" /\ pc = "done") =>
    \A k \in ExistingSrcs : \A q \in DOMAIN fs0 : IsPrefix(Srcs[k], q) =>
      LET r == Rebase(q, Srcs[k], CopyName(k)) IN
        /\ Exists(fs, r)
        /\ fs[r].type = fs0[q].type
        /\ fs[r].bytes = fs0[q].bytes

\* C9: shutil.copy2 is reached only when nothing exists at copy_name.
C9_CopyOnlyWhenAbsent ==
  \A n \in DOMAIN stack : stack[n].pc = "copy2" => ~Exists(fs, stack[n].copy_name)

\* C10: no call of _copy() copies from inside a directory that an enclosing
\* call of _copy(), still active, has made.
C10_NoDescentIntoOwnOutput ==
  \A m, n \in DOMAIN stack :
    (m < n /\ stack[m].did_make_new_dir) => ~IsPrefix(stack[m].copy_name, stack[n].src)

====
